---- MODULE Spec2Model ----
(***************************************************************************)
(* Quick Rewriter (quick_rewriter.py): a global hotkey captures the        *)
(* selection, a floating PromptWindow takes an instruction, a worker       *)
(* thread calls the OpenRouter API, writes the clipboard and simulates a   *)
(* paste.                                                                  *)
(*                                                                         *)
(* Strings are sequences of atoms.  An atom is one character ("a", " ",    *)
(* "\n", "{", ...) or a literal run of source text that holds no leading   *)
(* or trailing whitespace and no brace (a message, a directive); the       *)
(* inputs the model enumerates are built from single characters only.      *)
(***************************************************************************)
EXTENDS Integers, Sequences, FiniteSets, TLC

VARIABLES
    clipboard,              \* the OS clipboard (pyperclip)
    cfgFile,                \* config.json
    promptsFile,            \* prompts.json
    current_prompt_window,  \* App.current_prompt_window (0 = None)
    win,                    \* the PromptWindow objects, by creation number
    nWin,                   \* PromptWindows created so far
    workers,                \* the worker threads _submit started, in start order
    uiQueue,                \* callbacks handed to the Tk event loop with after(0, ..)
    timers,                 \* windows with a pending after(2000, self.destroy)
    hotkeys,                \* chord presses so far
    focused,                \* the window that last got lift() + focus_force()
    keystrokes,             \* per window: simulated Ctrl+V sequences
    mgmt,                   \* the ManagementWindow (settings): config_data, prompts
    args,                   \* inputs of the function under check
    ret,                    \* its result
    done                    \* whether it has been applied

mainVars == <<clipboard, cfgFile, promptsFile, current_prompt_window, win, nWin,
              workers, uiQueue, timers, hotkeys, focused, keystrokes, mgmt>>
fnVars == <<args, ret, done>>
vars == <<clipboard, cfgFile, promptsFile, current_prompt_window, win, nWin,
          workers, uiQueue, timers, hotkeys, focused, keystrokes, mgmt, args, ret,
          done>>

(***************************************************************************)
(* Bounds                                                                  *)
(***************************************************************************)
MaxHotkeys == 2     \* chord presses, and so PromptWindows
MaxWorkers == 2     \* worker threads over the whole run
MaxLen == 2         \* length of an enumerated input string

(***************************************************************************)
(* Python str operations                                                   *)
(***************************************************************************)
Whitespace == {" ", "\n"}

RECURSIVE lstrip(_)
lstrip(s) ==
    IF s = <<>> THEN s
    ELSE IF Head(s) \in Whitespace THEN lstrip(Tail(s)) ELSE s

RECURSIVE rstrip(_)
rstrip(s) ==
    IF s = <<>> THEN s
    ELSE IF s[Len(s)] \in Whitespace THEN rstrip(SubSeq(s, 1, Len(s) - 1)) ELSE s

strip(s) == rstrip(lstrip(s))

\* sub in s
Contains(s, sub) ==
    \E i \in 1..(Len(s) - Len(sub) + 1) : SubSeq(s, i, i + Len(sub) - 1) = sub

startswith(s, prefix) ==
    Len(s) >= Len(prefix) /\ SubSeq(s, 1, Len(prefix)) = prefix

Marker == <<"{", "t", "e", "x", "t", "}">>

FormatFail == [ok |-> FALSE, out |-> <<>>]

Emit(s, r) == IF r.ok THEN [ok |-> TRUE, out |-> s \o r.out] ELSE FormatFail

\* Index of the first "}" of t, 0 when there is none.
RECURSIVE FirstClose(_, _)
FirstClose(t, i) ==
    IF i > Len(t) THEN 0
    ELSE IF t[i] = "}" THEN i ELSE FirstClose(t, i + 1)

\* template.format(text=x): "{{" and "}}" are literal braces, "{text}" is the
\* keyword argument, any other field or a single brace raises.
RECURSIVE format(_, _)
format(t, x) ==
    IF t = <<>> THEN [ok |-> TRUE, out |-> <<>>]
    ELSE IF Head(t) = "{" THEN
        IF Len(t) >= 2 /\ t[2] = "{"
        THEN Emit(<<"{">>, format(SubSeq(t, 3, Len(t)), x))
        ELSE LET close == FirstClose(t, 2) IN
             IF close = 0 THEN FormatFail
             ELSE IF SubSeq(t, 2, close - 1) = <<"t", "e", "x", "t">>
                  THEN Emit(x, format(SubSeq(t, close + 1, Len(t)), x))
                  ELSE FormatFail
    ELSE IF Head(t) = "}" THEN
        IF Len(t) >= 2 /\ t[2] = "}"
        THEN Emit(<<"}">>, format(SubSeq(t, 3, Len(t)), x))
        ELSE FormatFail
    ELSE Emit(<<Head(t)>>, format(Tail(t), x))

(***************************************************************************)
(* Template Resolver                                                       *)
(***************************************************************************)
strict_suffix ==
    <<"\n", "\n",
      "IMPORTANT: Output ONLY the rewritten text. Do not add any explanations, preambles, notes, or surrounding text. Just the result.">>

BlankLine == <<"\n", "\n">>

combine_prompt(captured_text, instruction_or_template) ==
    LET template == instruction_or_template IN
    IF Contains(template, Marker)
    THEN LET f == format(template, captured_text) IN
         IF f.ok THEN f.out \o strict_suffix
         ELSE template \o BlankLine \o captured_text \o strict_suffix
    ELSE strip(strip(template) \o BlankLine \o captured_text) \o strict_suffix

(***************************************************************************)
(* Settings store                                                          *)
(***************************************************************************)
Placeholder == <<"YOUR_OPENROUTER_API_KEY_HERE">>

\* config.json: absent, unparsable, or a JSON object that may hold "api_key".
ConfigJson(has_key, key) == [kind |-> "json", has_key |-> has_key, api_key |-> key]

DefaultConfig == ConfigJson(TRUE, Placeholder)

save_config(data) == data

\* Mutant: an unparsable file is answered with the default but left as it is.
load_config_unsaved(file) ==
    IF file.kind = "absent"
    THEN [cfg |-> DefaultConfig, file |-> save_config(DefaultConfig)]
    ELSE IF file.kind = "json"
         THEN [cfg |-> file, file |-> file]
         ELSE [cfg |-> DefaultConfig, file |-> file]

\* [cfg |-> the record returned, file |-> config.json afterwards]
load_config(file) ==
    IF file.kind = "absent"
    THEN [cfg |-> DefaultConfig, file |-> save_config(DefaultConfig)]
    ELSE IF file.kind = "json"
         THEN [cfg |-> file, file |-> file]
         ELSE [cfg |-> DefaultConfig, file |-> save_config(DefaultConfig)]

(***************************************************************************)
(* API client                                                              *)
(***************************************************************************)
ErrKeyMissing == <<"OpenRouter API key missing. Set it in Settings.">>
ErrTransport == <<"HTTPError">>
ErrNoChoices == <<"No choices returned from OpenRouter.">>
ErrEmptyContent == <<"Empty response content from OpenRouter.">>

\* cfg.get("api_key", "").strip()
api_key_of(cfg) == strip(IF cfg.has_key THEN cfg.api_key ELSE <<>>)

\* Mutant: the comparison with the placeholder is forgotten.
KeyRefusedEmptyOnly(api_key) == api_key = <<>>

\* The guard of line 130: TRUE when the call is refused before any request.
KeyRefused(api_key) == api_key = <<>> \/ api_key = Placeholder

\* One choice of the response: {"message": {"content": ...}} with either level
\* possibly absent.
Choice(has_message, has_content, content) ==
    [has_message |-> has_message, has_content |-> has_content, content |-> content]

HttpFailure == [kind |-> "failure", has_choices |-> FALSE, choices |-> <<>>]
HttpOk(has_choices, choices) ==
    [kind |-> "ok", has_choices |-> has_choices, choices |-> choices]

\* choices[0].get("message", {}).get("content", "")
content_of(choice) ==
    IF choice.has_message /\ choice.has_content THEN choice.content ELSE <<>>

Raise(err) == [ok |-> FALSE, val |-> err]
Return(val) == [ok |-> TRUE, val |-> val]

\* Mutant: the content is trimmed before it is tested and returned.
parse_response_trimmed(resp) ==
    IF resp.kind # "ok" THEN Raise(ErrTransport)
    ELSE LET choices == IF resp.has_choices THEN resp.choices ELSE <<>> IN
         IF choices = <<>> THEN Raise(ErrNoChoices)
         ELSE LET content == strip(content_of(choices[1])) IN
              IF content = <<>> THEN Raise(ErrEmptyContent)
              ELSE Return(content)

\* Lines 147-156: what call_openrouter_api makes of the response to its POST.
parse_response(resp) ==
    IF resp.kind # "ok" THEN Raise(ErrTransport)
    ELSE LET choices == IF resp.has_choices THEN resp.choices ELSE <<>> IN
         IF choices = <<>> THEN Raise(ErrNoChoices)
         ELSE LET content == content_of(choices[1]) IN
              IF content = <<>> THEN Raise(ErrEmptyContent)
              ELSE Return(content)

\* The whole call: [ok, val, posts, payload, file].  posts counts the HTTP
\* POSTs made and payload is the body of the one user message.
call_openrouter_api(file, captured_text, instruction_or_template, resp) ==
    LET l == load_config(file)
        api_key == api_key_of(l.cfg)
    IN  IF KeyRefused(api_key)
        THEN [ok |-> FALSE, val |-> ErrKeyMissing, posts |-> 0,
              payload |-> <<>>, file |-> l.file]
        ELSE LET r == parse_response(resp) IN
             [ok |-> r.ok, val |-> r.val, posts |-> 1,
              payload |-> combine_prompt(captured_text, instruction_or_template),
              file |-> l.file]

(***************************************************************************)
(* Prompt template store                                                   *)
(***************************************************************************)
Prompt(name, prompt) == [name |-> name, prompt |-> prompt]

default_prompts ==
    << Prompt(<<"P", "r", "o", "f", "e", "s", "s", "i", "o", "n", "a", "l", " ",
                "T", "o", "n", "e">>,
              <<"Rewrite the following text in a clear, formal, and professional business tone. Output ONLY the rewritten text with no preamble, explanation, or notes:",
                "\n", "\n">> \o Marker),
       Prompt(<<"F", "i", "x", " ", "G", "r", "a", "m", "m", "a", "r">>,
              <<"Correct any spelling and grammar mistakes in the following text. Output ONLY the corrected text with no explanations or notes:",
                "\n", "\n">> \o Marker) >>

\* prompts.json: absent, unparsable, JSON that is no list, or a list of prompts.
PromptsJson(items) == [kind |-> "list", items |-> items]
PromptsOther(kind) == [kind |-> kind, items |-> <<>>]

save_prompts(data) == PromptsJson(data)

\* [prompts |-> the list returned, file |-> prompts.json afterwards]
load_prompts(file) ==
    IF file.kind = "absent"
    THEN [prompts |-> default_prompts, file |-> save_prompts(default_prompts)]
    ELSE IF file.kind = "list"
         THEN [prompts |-> file.items, file |-> file]
         ELSE IF file.kind = "notlist"
              THEN [prompts |-> default_prompts, file |-> file]
              ELSE [prompts |-> default_prompts, file |-> save_prompts(default_prompts)]

(***************************************************************************)
(* PromptWindow: the name dictionary and the sorted display list           *)
(***************************************************************************)
Upper == <<"A", "B", "C", "D", "E", "F", "G", "H", "I", "J", "K", "L", "M",
           "N", "O", "P", "Q", "R", "S", "T", "U", "V", "W", "X", "Y", "Z">>
Lower == <<"a", "b", "c", "d", "e", "f", "g", "h", "i", "j", "k", "l", "m",
           "n", "o", "p", "q", "r", "s", "t", "u", "v", "w", "x", "y", "z">>
\* The characters names are made of, in code point order.
CodeOrder == <<"\n", " ", "/">> \o Upper \o Lower \o <<"{", "}">>

IndexIn(seq, c) == CHOOSE i \in 1..Len(seq) : seq[i] = c
InSeq(seq, c) == \E i \in 1..Len(seq) : seq[i] = c

lower_char(c) == IF InSeq(Upper, c) THEN Lower[IndexIn(Upper, c)] ELSE c
lower(s) == [i \in 1..Len(s) |-> lower_char(s[i])]

\* s < t for str, character by character
RECURSIVE StrLess(_, _)
StrLess(s, t) ==
    IF t = <<>> THEN FALSE
    ELSE IF s = <<>> THEN TRUE
    ELSE IF Head(s) = Head(t) THEN StrLess(Tail(s), Tail(t))
    ELSE IndexIn(CodeOrder, Head(s)) < IndexIn(CodeOrder, Head(t))

\* The keys of {p["name"]: p["prompt"] for p in prompts}, in insertion order.
RECURSIVE dict_keys(_)
dict_keys(prompts) ==
    IF prompts = <<>> THEN <<>>
    ELSE LET init == dict_keys(SubSeq(prompts, 1, Len(prompts) - 1))
             name == prompts[Len(prompts)].name
         IN  IF InSeq(init, name) THEN init ELSE Append(init, name)

\* name_to_prompt.get(name, ""): a later entry of the same name wins.
RECURSIVE dict_get(_, _)
dict_get(prompts, name) ==
    IF prompts = <<>> THEN <<>>
    ELSE IF prompts[Len(prompts)].name = name THEN prompts[Len(prompts)].prompt
    ELSE dict_get(SubSeq(prompts, 1, Len(prompts) - 1), name)

\* Insert name into a list sorted by lower(), after its equals (sorted is stable).
RECURSIVE InsertSorted(_, _)
InsertSorted(sorted, name) ==
    IF sorted = <<>> THEN <<name>>
    ELSE IF StrLess(lower(name), lower(Head(sorted)))
         THEN <<name>> \o sorted
         ELSE <<Head(sorted)>> \o InsertSorted(Tail(sorted), name)

RECURSIVE SortNames(_)
SortNames(names) ==
    IF names = <<>> THEN <<>>
    ELSE InsertSorted(SortNames(SubSeq(names, 1, Len(names) - 1)), names[Len(names)])

\* sorted(self.name_to_prompt.keys(), key=lambda s: s.lower())
sorted_prompt_names(prompts) == SortNames(dict_keys(prompts))

\* len(self.prompt_buttons): one button per displayed name
NumButtons(prompts) == Len(sorted_prompt_names(prompts))

(***************************************************************************)
(* State of the application                                                *)
(***************************************************************************)
Windows == 1..MaxHotkeys

NoWindow ==
    [state |-> "none", captured_text |-> <<>>, prompts |-> <<>>,
     prompt_select_mode |-> FALSE, selected_prompt_index |-> 0,
     entry |-> <<>>, disabled |-> FALSE, paste_executed |-> FALSE]

\* No ManagementWindow has been opened.
NoSettings == [open |-> FALSE, config_data |-> ConfigJson(FALSE, <<>>), prompts |-> <<>>]

\* PromptWindow.__init__
NewWindow(captured_text, prompts) ==
    [state |-> "open", captured_text |-> captured_text, prompts |-> prompts,
     prompt_select_mode |-> FALSE, selected_prompt_index |-> 0,
     entry |-> <<>>, disabled |-> FALSE, paste_executed |-> FALSE]

\* winfo_exists()
winfo_exists(wn, w) == wn[w].state = "open"

\* A callback given to after(0, ..): _open_prompt_window(captured), or a
\* window's _finish_success / _finish_error on behalf of worker k.
Callback(kind, w, k, captured) == [kind |-> kind, w |-> w, k |-> k, captured |-> captured]

\* threading.Thread(target=worker): the thread and what it has done so far.
NewWorker(w, instruction) ==
    [win |-> w, instruction |-> instruction, pc |-> "start", outcome |-> "none",
     val |-> <<>>, posts |-> 0, copies |-> <<>>, signals |-> <<>>,
     handled |-> FALSE, pasted |-> FALSE]

\* Toplevel.destroy(): the window is gone, and Misc.destroy deletes the Tcl
\* commands the window registered, its pending after() callbacks among them.
DropCallbacks(q, w) ==
    SelectSeq(q, LAMBDA e : ~(e.kind \in {"finish_success", "finish_error"} /\ e.w = w))

Destroyed(wn, w) == [wn EXCEPT ![w].state = "destroyed"]

(***************************************************************************)
(* Inputs                                                                  *)
(***************************************************************************)
Seqs(S, n) == UNION {[1..k -> S] : k \in 0..n}

Selections == {<<"h", "i">>}
EntryTexts == {<<"/">>, <<"F", "i", "x">>}
AlphaKeys == {"a", "b"}
ValidKey == <<"s", "k">>
ReplyText == <<"O", "K">>
MainResponses == {HttpFailure, HttpOk(TRUE, <<Choice(TRUE, TRUE, ReplyText)>>)}
MainConfigs == {[kind |-> "absent", has_key |-> FALSE, api_key |-> <<>>],
                ConfigJson(TRUE, ValidKey)}
MainPrompts ==
    {PromptsJson(<<Prompt(<<"b">>, <<"B", ":", " ">> \o Marker),
                  Prompt(<<"A">>, <<"A", ":", " ">> \o Marker)>>)}

NoCall == [op |-> "none"]

\* App.__init__: no PromptWindow, no thread, nothing queued.
AppInit ==
    /\ clipboard = <<>>
    /\ current_prompt_window = 0
    /\ win = [w \in Windows |-> NoWindow]
    /\ nWin = 0
    /\ workers = <<>>
    /\ uiQueue = <<>>
    /\ timers = {}
    /\ hotkeys = 0
    /\ focused = 0
    /\ keystrokes = [w \in Windows |-> 0]
    /\ mgmt = NoSettings

MainInit ==
    /\ AppInit
    /\ cfgFile \in MainConfigs
    /\ promptsFile \in MainPrompts

Init ==
    /\ MainInit
    /\ args = NoCall
    /\ ret = <<>>
    /\ done = FALSE

(***************************************************************************)
(* Hotkey listener thread                                                  *)
(***************************************************************************)
\* Mutant: the captured text is handed on without the test of line 881.
OnHotkeyUnchecked(sel, readable) ==
    /\ hotkeys < MaxHotkeys
    /\ hotkeys' = hotkeys + 1
    /\ LET copied == IF sel = <<>> THEN clipboard ELSE sel
           captured == IF readable THEN copied ELSE <<>>
       IN  /\ clipboard' = copied
           /\ uiQueue' = Append(uiQueue, Callback("open", 0, 0, captured))
    /\ UNCHANGED <<cfgFile, promptsFile, current_prompt_window, win, nWin, workers,
                   timers, focused, keystrokes, mgmt, fnVars>>

\* App._on_hotkey with App._capture_selected_text: the simulated Ctrl+C puts
\* the selection, if any, on the clipboard; the clipboard is read back; a
\* failure or a non-text clipboard reads as "".
OnHotkey(sel, readable) ==
    /\ hotkeys < MaxHotkeys
    /\ hotkeys' = hotkeys + 1
    /\ LET copied == IF sel = <<>> THEN clipboard ELSE sel
           captured == IF readable THEN copied ELSE <<>>
       IN  /\ clipboard' = copied
           /\ uiQueue' = IF captured = <<>> THEN uiQueue
                         ELSE Append(uiQueue, Callback("open", 0, 0, captured))
    /\ UNCHANGED <<cfgFile, promptsFile, current_prompt_window, win, nWin, workers,
                   timers, focused, keystrokes, mgmt, fnVars>>

(***************************************************************************)
(* UI thread: callbacks of the event loop                                  *)
(***************************************************************************)
\* Mutant: the guard forgets winfo_exists().
CycleActiveNoExists(cur, wn) == cur # 0

\* Line 905: the single-cycle guard of _open_prompt_window.
CycleActive(cur, wn) == cur # 0 /\ winfo_exists(wn, cur)

\* App._open_prompt_window
OpenPromptWindow ==
    /\ uiQueue # <<>>
    /\ Head(uiQueue).kind = "open"
    /\ uiQueue' = Tail(uiQueue)
    /\ IF CycleActive(current_prompt_window, win)
       THEN /\ focused' = current_prompt_window
            /\ UNCHANGED <<promptsFile, current_prompt_window, win, nWin>>
       ELSE LET l == load_prompts(promptsFile)
                id == nWin + 1
            IN  /\ promptsFile' = l.file
                /\ nWin' = id
                /\ win' = [win EXCEPT ![id] = NewWindow(Head(uiQueue).captured, l.prompts)]
                /\ current_prompt_window' = id
                /\ focused' = id
    /\ UNCHANGED <<clipboard, cfgFile, workers, timers, hotkeys, keystrokes, mgmt, fnVars>>

\* PromptWindow._finish_success, with on_done of _open_prompt_window
FinishSuccess ==
    /\ uiQueue # <<>>
    /\ Head(uiQueue).kind = "finish_success"
    /\ LET w == Head(uiQueue).w
           k == Head(uiQueue).k
       IN  /\ current_prompt_window' = 0
           /\ win' = Destroyed(win, w)
           /\ uiQueue' = DropCallbacks(Tail(uiQueue), w)
           /\ timers' = timers \ {w}
           /\ workers' = [workers EXCEPT ![k].handled = TRUE]
    /\ UNCHANGED <<clipboard, cfgFile, promptsFile, nWin, hotkeys, focused,
                   keystrokes, mgmt, fnVars>>

\* PromptWindow._finish_error, with on_done of _open_prompt_window
FinishError ==
    /\ uiQueue # <<>>
    /\ Head(uiQueue).kind = "finish_error"
    /\ LET w == Head(uiQueue).w
           k == Head(uiQueue).k
       IN  /\ timers' = IF winfo_exists(win, w) THEN timers \cup {w} ELSE timers
           /\ current_prompt_window' = 0
           /\ uiQueue' = Tail(uiQueue)
           /\ workers' = [workers EXCEPT ![k].handled = TRUE]
    /\ UNCHANGED <<clipboard, cfgFile, promptsFile, win, nWin, hotkeys,
                   focused, keystrokes, mgmt, fnVars>>

\* The after(2000, self.destroy) of _finish_error fires.
TimerDestroy(w) ==
    /\ w \in timers
    /\ win' = Destroyed(win, w)
    /\ uiQueue' = DropCallbacks(uiQueue, w)
    /\ timers' = timers \ {w}
    /\ UNCHANGED <<clipboard, cfgFile, promptsFile, current_prompt_window, nWin,
                   workers, hotkeys, focused, keystrokes, mgmt, fnVars>>

(***************************************************************************)
(* UI thread: key and mouse events of a PromptWindow                       *)
(***************************************************************************)
\* A key released in the entry leaves it holding `content`:
\* _maybe_enter_prompt_select with _enter_prompt_select / _exit_prompt_select.
TypeEntry(w, content) ==
    /\ winfo_exists(win, w)
    /\ ~win[w].disabled
    /\ content # win[w].entry
    /\ win' = [win EXCEPT
                 ![w].entry = content,
                 ![w].prompt_select_mode =
                     IF startswith(content, <<"/">>) /\ ~win[w].prompt_select_mode THEN TRUE
                     ELSE IF ~startswith(content, <<"/">>) /\ win[w].prompt_select_mode THEN FALSE
                     ELSE win[w].prompt_select_mode,
                 ![w].selected_prompt_index =
                     IF startswith(content, <<"/">>) /\ ~win[w].prompt_select_mode THEN 0
                     ELSE win[w].selected_prompt_index]
    /\ UNCHANGED <<clipboard, cfgFile, promptsFile, current_prompt_window, nWin,
                   workers, uiQueue, timers, hotkeys, focused, keystrokes, mgmt, fnVars>>

\* PromptWindow._navigate_up / _navigate_down (step = -1 / +1)
Navigate(w, step) ==
    /\ winfo_exists(win, w)
    /\ win[w].prompt_select_mode
    /\ NumButtons(win[w].prompts) > 0
    /\ win' = [win EXCEPT ![w].selected_prompt_index =
                 (win[w].selected_prompt_index + step) % NumButtons(win[w].prompts)]
    /\ UNCHANGED <<clipboard, cfgFile, promptsFile, current_prompt_window, nWin,
                   workers, uiQueue, timers, hotkeys, focused, keystrokes, mgmt, fnVars>>

\* PromptWindow._jump_to_alpha: the first displayed name starting with the key
JumpToAlpha(w, key) ==
    /\ winfo_exists(win, w)
    /\ win[w].prompt_select_mode
    /\ LET names == sorted_prompt_names(win[w].prompts)
           hits == {i \in 1..Len(names) : startswith(lower(names[i]), <<key>>)}
       IN  /\ hits # {}
           /\ win' = [win EXCEPT ![w].selected_prompt_index =
                        (CHOOSE i \in hits : \A j \in hits : i <= j) - 1]
    /\ UNCHANGED <<clipboard, cfgFile, promptsFile, current_prompt_window, nWin,
                   workers, uiQueue, timers, hotkeys, focused, keystrokes, mgmt, fnVars>>

\* PromptWindow._select_prompt: a click on the button at `index`
SelectPrompt(w, index) ==
    /\ winfo_exists(win, w)
    /\ win[w].prompt_select_mode
    /\ ~win[w].disabled
    /\ index \in 0..(NumButtons(win[w].prompts) - 1)
    /\ win' = [win EXCEPT ![w].selected_prompt_index = index]
    /\ UNCHANGED <<clipboard, cfgFile, promptsFile, current_prompt_window, nWin,
                   workers, uiQueue, timers, hotkeys, focused, keystrokes, mgmt, fnVars>>

\* PromptWindow._cancel (Escape)
Cancel(w) ==
    /\ winfo_exists(win, w)
    /\ win' = Destroyed(win, w)
    /\ uiQueue' = DropCallbacks(uiQueue, w)
    /\ timers' = timers \ {w}
    /\ UNCHANGED <<clipboard, cfgFile, promptsFile, current_prompt_window, nWin,
                   workers, hotkeys, focused, keystrokes, mgmt, fnVars>>

\* Lines 755-767 of _submit: the instruction, <<>> when _submit returns early.
SubmitInstruction(wr) ==
    IF wr.prompt_select_mode
    THEN LET prompt_names == dict_keys(wr.prompts) IN
         IF 0 <= wr.selected_prompt_index /\ wr.selected_prompt_index < Len(prompt_names)
         THEN dict_get(wr.prompts, prompt_names[wr.selected_prompt_index + 1])
         ELSE <<>>
    ELSE strip(wr.entry)

\* PromptWindow._submit (Return, on the entry's binding or on the window's)
\* with _disable_inputs: starts a worker thread.
Submit(w) ==
    /\ winfo_exists(win, w)
    /\ SubmitInstruction(win[w]) # <<>>
    /\ Len(workers) < MaxWorkers
    /\ win' = [win EXCEPT ![w].disabled = TRUE]
    /\ workers' = Append(workers, NewWorker(w, SubmitInstruction(win[w])))
    /\ UNCHANGED <<clipboard, cfgFile, promptsFile, current_prompt_window, nWin,
                   uiQueue, timers, hotkeys, focused, keystrokes, mgmt, fnVars>>

(***************************************************************************)
(* Worker thread: _submit.worker                                           *)
(***************************************************************************)
ErrorText(err) == <<"Error: ">> \o err

\* call_openrouter_api up to the POST: load_config and the key check.
WorkerCall(k) ==
    /\ k \in 1..Len(workers)
    /\ workers[k].pc = "start"
    /\ LET l == load_config(cfgFile) IN
       /\ cfgFile' = l.file
       /\ workers' = IF KeyRefused(api_key_of(l.cfg))
                     THEN [workers EXCEPT ![k].pc = "except", ![k].outcome = "err",
                                          ![k].val = ErrKeyMissing]
                     ELSE [workers EXCEPT ![k].pc = "http", ![k].posts = 1]
    /\ UNCHANGED <<clipboard, promptsFile, current_prompt_window, win, nWin, uiQueue,
                   timers, hotkeys, focused, keystrokes, mgmt, fnVars>>

\* The POST ends (a response, an HTTP error or the timeout); on success
\* pyperclip.copy(result).
WorkerResponse(k, resp) ==
    /\ k \in 1..Len(workers)
    /\ workers[k].pc = "http"
    /\ LET r == parse_response(resp) IN
       IF r.ok
       THEN /\ clipboard' = r.val
            /\ workers' = [workers EXCEPT ![k].pc = "signal_ok", ![k].outcome = "ok",
                                          ![k].val = r.val,
                                          ![k].copies = Append(@, "result")]
       ELSE /\ clipboard' = clipboard
            /\ workers' = [workers EXCEPT ![k].pc = "except", ![k].outcome = "err",
                                          ![k].val = r.val]
    /\ UNCHANGED <<cfgFile, promptsFile, current_prompt_window, win, nWin, uiQueue,
                   timers, hotkeys, focused, keystrokes, mgmt, fnVars>>

\* self.after(0, self._finish_success)
WorkerSignalSuccess(k) ==
    /\ k \in 1..Len(workers)
    /\ workers[k].pc = "signal_ok"
    /\ uiQueue' = Append(uiQueue, Callback("finish_success", workers[k].win, k, <<>>))
    /\ workers' = [workers EXCEPT ![k].pc = "sleep", ![k].signals = Append(@, "success")]
    /\ UNCHANGED <<clipboard, cfgFile, promptsFile, current_prompt_window, win, nWin,
                   timers, hotkeys, focused, keystrokes, mgmt, fnVars>>

\* except Exception: pyperclip.copy(f"Error: {e}")
WorkerExcept(k) ==
    /\ k \in 1..Len(workers)
    /\ workers[k].pc = "except"
    /\ clipboard' = ErrorText(workers[k].val)
    /\ workers' = [workers EXCEPT ![k].pc = "signal_err", ![k].copies = Append(@, "error")]
    /\ UNCHANGED <<cfgFile, promptsFile, current_prompt_window, win, nWin, uiQueue,
                   timers, hotkeys, focused, keystrokes, mgmt, fnVars>>

\* self.after(0, lambda: self._finish_error(str(e)))
WorkerSignalError(k) ==
    /\ k \in 1..Len(workers)
    /\ workers[k].pc = "signal_err"
    /\ uiQueue' = Append(uiQueue, Callback("finish_error", workers[k].win, k, <<>>))
    /\ workers' = [workers EXCEPT ![k].pc = "done", ![k].signals = Append(@, "error")]
    /\ UNCHANGED <<clipboard, cfgFile, promptsFile, current_prompt_window, win, nWin,
                   timers, hotkeys, focused, keystrokes, mgmt, fnVars>>

\* Line 844 of _auto_paste, after time.sleep(0.25): the read of the flag.
\* TRUE when the call goes on to paste.
PasteGuard(paste_executed) == ~paste_executed

AutoPasteCheck(k) ==
    /\ k \in 1..Len(workers)
    /\ workers[k].pc = "sleep"
    /\ workers' = [workers EXCEPT ![k].pc =
                     IF PasteGuard(win[workers[k].win].paste_executed)
                     THEN "paste" ELSE "done"]
    /\ UNCHANGED <<clipboard, cfgFile, promptsFile, current_prompt_window, win, nWin,
                   uiQueue, timers, hotkeys, focused, keystrokes, mgmt, fnVars>>

\* Mutant: a failure of the simulated keys is not swallowed and reaches the
\* worker's except clause.
AutoPasteKeysRaises(k) ==
    /\ k \in 1..Len(workers)
    /\ workers[k].pc = "paste"
    /\ win' = [win EXCEPT ![workers[k].win].paste_executed = TRUE]
    /\ workers' = [workers EXCEPT ![k].pc = "except", ![k].val = <<"paste failed">>]
    /\ UNCHANGED <<clipboard, cfgFile, promptsFile, current_prompt_window, nWin,
                   uiQueue, timers, hotkeys, focused, keystrokes, mgmt, fnVars>>

\* Lines 846-852 of _auto_paste: the write of the flag and the Ctrl+V.
AutoPasteKeys(k) ==
    /\ k \in 1..Len(workers)
    /\ workers[k].pc = "paste"
    /\ win' = [win EXCEPT ![workers[k].win].paste_executed = TRUE]
    /\ keystrokes' = [keystrokes EXCEPT ![workers[k].win] = @ + 1]
    /\ workers' = [workers EXCEPT ![k].pc = "done", ![k].pasted = TRUE]
    /\ UNCHANGED <<clipboard, cfgFile, promptsFile, current_prompt_window, nWin,
                   uiQueue, timers, hotkeys, focused, mgmt, fnVars>>

(***************************************************************************)
(* The application                                                         *)
(***************************************************************************)
Next ==
    \/ \E sel \in Selections \cup {<<>>}, readable \in BOOLEAN : OnHotkey(sel, readable)
    \/ OpenPromptWindow
    \/ FinishSuccess
    \/ FinishError
    \/ \E w \in Windows : TimerDestroy(w)
    \/ \E w \in Windows, content \in EntryTexts : TypeEntry(w, content)
    \/ \E w \in Windows, step \in {-1, 1} : Navigate(w, step)
    \/ \E w \in Windows, key \in AlphaKeys : JumpToAlpha(w, key)
    \/ \E w \in Windows, index \in 0..1 : SelectPrompt(w, index)
    \/ \E w \in Windows : Cancel(w)
    \/ \E w \in Windows : Submit(w)
    \/ \E k \in 1..MaxWorkers : WorkerCall(k)
    \/ \E k \in 1..MaxWorkers, resp \in MainResponses : WorkerResponse(k, resp)
    \/ \E k \in 1..MaxWorkers : WorkerSignalSuccess(k)
    \/ \E k \in 1..MaxWorkers : WorkerExcept(k)
    \/ \E k \in 1..MaxWorkers : WorkerSignalError(k)
    \/ \E k \in 1..MaxWorkers : AutoPasteCheck(k)
    \/ \E k \in 1..MaxWorkers : AutoPasteKeys(k)

Spec == Init /\ [][Next]_vars

\* One step of worker thread k.
WorkerStep(k) ==
    \/ WorkerCall(k)
    \/ \E resp \in MainResponses : WorkerResponse(k, resp)
    \/ WorkerSignalSuccess(k)
    \/ WorkerExcept(k)
    \/ WorkerSignalError(k)
    \/ AutoPasteCheck(k)
    \/ AutoPasteKeys(k)

\* The Tk event loop runs every due callback and timer; a started thread
\* runs on, and the POST ends within its 60 s timeout.  Key presses and
\* clicks are the user's and are not forced.
Fairness ==
    /\ WF_vars(OpenPromptWindow)
    /\ WF_vars(FinishSuccess)
    /\ WF_vars(FinishError)
    /\ WF_vars(\E w \in Windows : TimerDestroy(w))
    /\ \A k \in 1..MaxWorkers : WF_vars(WorkerStep(k))

SpecLive == Init /\ [][Next]_vars /\ Fairness


(***************************************************************************)
(* The pure functions, applied to enumerated inputs                        *)
(***************************************************************************)
\* Instructions _submit can pass on (line 766: never empty) and texts
\* _on_hotkey can capture (line 881: never empty).
TemplateChars == {"a", " ", "\n", "{"}
TextChars == {"h", " ", "\n", "{"}
PlainTemplates == {t \in Seqs(TemplateChars, MaxLen) : strip(t) # <<>>}
MarkerTemplates ==
    {pre \o Marker \o post : pre \in Seqs({"a", "{"}, 1), post \in Seqs({"a", "}"}, 1)}
Templates == PlainTemplates \cup MarkerTemplates
Texts == Seqs(TextChars, MaxLen) \ {<<>>}

InitCombine ==
    /\ MainInit
    /\ args \in [op : {"combine"}, text : Texts, template : Templates]
    /\ ret = <<>>
    /\ done = FALSE

\* _combine_prompt(captured_text, instruction_or_template)
CombinePrompt ==
    /\ ~done
    /\ args.op = "combine"
    /\ ret' = combine_prompt(args.text, args.template)
    /\ done' = TRUE
    /\ UNCHANGED <<mainVars, args>>

SpecCombine == InitCombine /\ [][CombinePrompt]_vars

KeyChars == {" ", "k"}
ApiKeys ==
    Seqs(KeyChars, MaxLen)
        \cup {Placeholder, <<" ">> \o Placeholder, Placeholder \o <<"\n">>}
ApiFiles ==
    {[kind |-> "absent", has_key |-> FALSE, api_key |-> <<>>],
     [kind |-> "corrupt", has_key |-> FALSE, api_key |-> <<>>],
     ConfigJson(FALSE, <<>>)}
        \cup {ConfigJson(TRUE, key) : key \in ApiKeys}
ContentChars == {" ", "H"}
Choices ==
    {Choice(FALSE, FALSE, <<>>), Choice(TRUE, FALSE, <<>>)}
        \cup {Choice(TRUE, TRUE, c) : c \in Seqs(ContentChars, MaxLen)}
ApiResponses ==
    {HttpFailure, HttpOk(FALSE, <<>>)} \cup {HttpOk(TRUE, cs) : cs \in Seqs(Choices, 2)}

InitApi ==
    /\ MainInit
    /\ args \in [op : {"api"}, file : ApiFiles, text : {<<"h", "i">>},
                 template : {<<"F", "i", "x">>}, resp : ApiResponses]
    /\ ret = <<>>
    /\ done = FALSE

\* call_openrouter_api(captured_text, instruction_or_template) against the
\* stored config.json, with args.resp what the endpoint answers to a POST.
CallApi ==
    /\ ~done
    /\ args.op = "api"
    /\ ret' = call_openrouter_api(args.file, args.text, args.template, args.resp)
    /\ done' = TRUE
    /\ UNCHANGED <<mainVars, args>>

SpecApi == InitApi /\ [][CallApi]_vars

(***************************************************************************)
(* Settings: the stores and the ManagementWindow                           *)
(***************************************************************************)
MaxPrompts == 2     \* templates a stored list may hold

UntitledPrompt == <<"Untitled Prompt">>

\* Mutant: the template body is stored as typed.
editor_entry_as_typed(name_text, prompt_text) ==
    LET name_val == strip(name_text) IN
    Prompt(IF name_val = <<>> THEN UntitledPrompt ELSE name_val, strip(prompt_text))

\* Lines 448-458 of save_and_close: the entry made of the editor's two fields.
editor_entry(name_text, prompt_text) ==
    LET name_val == strip(name_text)
        prompt_val == strip(prompt_text)
    IN  Prompt(IF name_val = <<>> THEN UntitledPrompt ELSE name_val,
               IF ~Contains(prompt_val, Marker)
               THEN strip(rstrip(prompt_val) \o BlankLine \o Marker)
               ELSE prompt_val)

\* Mutant: the range check forgets the lower bound.
valid_index_no_lower(prompts, index) == index < Len(prompts)

\* Line 379 of _delete_prompt
valid_index(prompts, index) == 0 <= index /\ index < Len(prompts)

\* Line 380: del self.prompts[index] (a negative index counts from the end)
delete_index(prompts, index) ==
    LET i == IF index < 0 THEN Len(prompts) + index + 1 ELSE index + 1 IN
    SubSeq(prompts, 1, i - 1) \o SubSeq(prompts, i + 1, Len(prompts))

EditorNames == {<<>>, <<"N", " ">>}
EditorBodies == {<<"a", " ">>, <<"a">> \o Marker}
KeyEntries == {<<>>, <<"k", " ">>}
StoredPrompts == {Prompt(<<"N">>, <<"a">>), Prompt(<<"M">>, Marker)}
SettingsPrompts ==
    {PromptsOther("absent"), PromptsOther("corrupt"), PromptsOther("notlist")}
        \cup {PromptsJson(items) : items \in Seqs(StoredPrompts, MaxPrompts)}
SettingsConfigs ==
    {[kind |-> "absent", has_key |-> FALSE, api_key |-> <<>>],
     [kind |-> "corrupt", has_key |-> FALSE, api_key |-> <<>>],
     ConfigJson(FALSE, <<>>), ConfigJson(TRUE, ValidKey)}

\* What the settings operations leave alone.
appVars == <<clipboard, current_prompt_window, win, nWin, workers, uiQueue, timers,
             hotkeys, focused, keystrokes, done>>

InitSettings ==
    /\ AppInit
    /\ cfgFile \in SettingsConfigs
    /\ promptsFile \in SettingsPrompts
    /\ args = NoCall
    /\ ret = <<>>
    /\ done = FALSE

\* load_config() by any caller
LoadConfig ==
    /\ LET l == load_config(cfgFile) IN
       /\ ret' = l.cfg
       /\ cfgFile' = l.file
    /\ args' = [op |-> "load_config", file |-> cfgFile]
    /\ UNCHANGED <<promptsFile, mgmt, appVars>>

\* load_prompts() by any caller
LoadPrompts ==
    /\ LET l == load_prompts(promptsFile) IN
       /\ ret' = l.prompts
       /\ promptsFile' = l.file
    /\ args' = [op |-> "load_prompts", file |-> promptsFile]
    /\ UNCHANGED <<cfgFile, mgmt, appVars>>

\* ManagementWindow.__init__
OpenSettings ==
    /\ ~mgmt.open
    /\ LET c == load_config(cfgFile)
           p == load_prompts(promptsFile)
       IN  /\ cfgFile' = c.file
           /\ promptsFile' = p.file
           /\ mgmt' = [open |-> TRUE, config_data |-> c.cfg, prompts |-> p.prompts]
    /\ args' = [op |-> "open"]
    /\ UNCHANGED <<ret, appVars>>

\* ManagementWindow._save_api_key
SaveApiKey(text) ==
    /\ mgmt.open
    /\ LET data == [mgmt.config_data EXCEPT !.has_key = TRUE, !.api_key = strip(text)] IN
       /\ mgmt' = [mgmt EXCEPT !.config_data = data]
       /\ cfgFile' = save_config(data)
    /\ args' = [op |-> "save_api_key", text |-> text]
    /\ UNCHANGED <<promptsFile, ret, appVars>>

\* _add_prompt, then save_and_close of the editor with index None
AddPrompt(name_text, prompt_text) ==
    /\ mgmt.open
    /\ Len(mgmt.prompts) < MaxPrompts
    /\ LET prompts == Append(mgmt.prompts, editor_entry(name_text, prompt_text)) IN
       /\ mgmt' = [mgmt EXCEPT !.prompts = prompts]
       /\ promptsFile' = save_prompts(prompts)
    /\ args' = [op |-> "add", index |-> Len(mgmt.prompts),
                name |-> name_text, prompt |-> prompt_text]
    /\ UNCHANGED <<cfgFile, ret, appVars>>

\* _edit_prompt(index), then save_and_close of the editor
EditPrompt(index, name_text, prompt_text) ==
    /\ mgmt.open
    /\ 0 <= index /\ index < Len(mgmt.prompts)
    /\ LET prompts == [mgmt.prompts EXCEPT
                         ![index + 1] = editor_entry(name_text, prompt_text)] IN
       /\ mgmt' = [mgmt EXCEPT !.prompts = prompts]
       /\ promptsFile' = save_prompts(prompts)
    /\ args' = [op |-> "edit", index |-> index,
                name |-> name_text, prompt |-> prompt_text]
    /\ UNCHANGED <<cfgFile, ret, appVars>>

\* ManagementWindow._delete_prompt
DeletePrompt(index) ==
    /\ mgmt.open
    /\ IF valid_index(mgmt.prompts, index)
       THEN LET prompts == delete_index(mgmt.prompts, index) IN
            /\ mgmt' = [mgmt EXCEPT !.prompts = prompts]
            /\ promptsFile' = save_prompts(prompts)
       ELSE UNCHANGED <<mgmt, promptsFile>>
    /\ args' = [op |-> "delete", index |-> index]
    /\ UNCHANGED <<cfgFile, ret, appVars>>

NextSettings ==
    \/ LoadConfig
    \/ LoadPrompts
    \/ OpenSettings
    \/ \E text \in KeyEntries : SaveApiKey(text)
    \/ \E name_text \in EditorNames, prompt_text \in EditorBodies :
          AddPrompt(name_text, prompt_text)
    \/ \E index \in 0..(MaxPrompts - 1), name_text \in EditorNames,
          prompt_text \in EditorBodies : EditPrompt(index, name_text, prompt_text)
    \/ \E index \in -1..MaxPrompts : DeletePrompt(index)

SpecSettings == InitSettings /\ [][NextSettings]_vars

(***************************************************************************)
(* Properties                                                              *)
(***************************************************************************)
OpenWindows == {w \in Windows : winfo_exists(win, w)}

\* The worker has been started and its call_openrouter_api has not returned.
InFlight(k) == workers[k].pc \in {"start", "http"}

WorkersOf(w) == {k \in 1..Len(workers) : workers[k].win = w}

\* Clipboard writes made by the workers of window w.
ClipWrites(w) ==
    UNION {{<<k, i>> : i \in 1..Len(workers[k].copies)} : k \in WorkersOf(w)}

\* C1: at any moment at most one PromptWindow is open.
C1_OnePromptWindow == Cardinality(OpenWindows) <= 1

\* C2: while a dispatched request has not run to completion, no new capture
\* cycle begins: no step creates a PromptWindow while a worker is in flight.
C2_NoNewCycleWhileInFlight ==
    [][(\E k \in 1..Len(workers) : InFlight(k)) => nWin' = nWin]_vars

\* C3: within one request cycle (one PromptWindow) the Ctrl+V sequence is
\* emitted at most once, whichever threads call _auto_paste.
C3_OnePastePerCycle == \A w \in Windows : keystrokes[w] <= 1

\* C4: a worker has issued the paste keystroke only if its API call succeeded,
\* it wrote the result to the clipboard, and its PromptWindow has begun
\* closing (it no longer exists).
C4_PasteAfterCopyAndClose ==
    \A k \in 1..Len(workers) :
        workers[k].pasted =>
            /\ workers[k].outcome = "ok"
            /\ workers[k].copies = <<"result">>
            /\ ~winfo_exists(win, workers[k].win)

\* C5: per request cycle (one PromptWindow) the clipboard is written at most
\* once after capture, so a result is never followed by an error message of
\* the same cycle.
C5_OneClipboardWritePerCycle == \A w \in Windows : Cardinality(ClipWrites(w)) <= 1

OpenQueued == \E i \in 1..Len(uiQueue) : uiQueue[i].kind = "open"

\* The cycle of window w is over: the window is gone (success, cancel, or the
\* error display timed out), or _finish_error has run for it.
CycleEnded(w) ==
    \/ win[w].state = "destroyed"
    \/ \E k \in WorkersOf(w) : workers[k].outcome = "err" /\ workers[k].handled

CredentialUnset(file) ==
    \/ file.kind # "json"
    \/ ~file.has_key
    \/ file.api_key = <<>>
    \/ file.api_key = Placeholder

\* C8: call_openrouter_api with a missing, empty or placeholder credential
\* fails with the configuration error and makes no HTTP POST.
C8_UnsetKeyRefused ==
    (done /\ args.op = "api" /\ CredentialUnset(args.file)) =>
        /\ ~ret.ok
        /\ ret.val = ErrKeyMissing
        /\ ret.posts = 0

\* C8 witness: the call was made with the placeholder stored and was refused.
C8_Witness ==
    /\ done
    /\ args.op = "api"
    /\ args.file = ConfigJson(TRUE, Placeholder)
    /\ ~ret.ok
    /\ ret.posts = 0

\* The response holds no usable text: no choices, or a first choice whose
\* message content is absent or empty.
NoUsableText(resp) ==
    \/ ~resp.has_choices
    \/ resp.choices = <<>>
    \/ ~resp.choices[1].has_message
    \/ ~resp.choices[1].has_content
    \/ resp.choices[1].content = <<>>

\* C9: when the POST was made and answered successfully, the call fails with
\* an empty-response error if the response holds no usable text, and
\* otherwise returns the first choice's content unchanged; one POST was made.
C9_FirstChoiceVerbatim ==
    (done /\ args.op = "api" /\ ret.posts > 0 /\ args.resp.kind = "ok") =>
        /\ ret.posts = 1
        /\ IF NoUsableText(args.resp)
           THEN ~ret.ok /\ ret.val \in {ErrNoChoices, ErrEmptyContent}
           ELSE ret.ok /\ ret.val = args.resp.choices[1].content

\* C9 witness: two choices came back, the first with surrounding whitespace,
\* and the call returned the first.
C9_Witness ==
    /\ done
    /\ args.op = "api"
    /\ ret.ok
    /\ Len(args.resp.choices) = 2
    /\ args.resp.choices[1].content = <<" ", "H">>
    /\ args.resp.choices[2].content = <<"H">>
    /\ ret.val = <<" ", "H">>

endswith(s, suffix) ==
    Len(s) >= Len(suffix) /\ SubSeq(s, Len(s) - Len(suffix) + 1, Len(s)) = suffix

\* out holds `first` and, after it and at least one blank line, `second`.
InOrderWithBlankLine(out, first, second) ==
    \E i \in 1..(Len(out) + 1), j \in 1..(Len(out) + 1) :
        /\ i + Len(first) - 1 <= Len(out)
        /\ SubSeq(out, i, i + Len(first) - 1) = first
        /\ j >= i + Len(first)
        /\ j + Len(second) - 1 <= Len(out)
        /\ SubSeq(out, j, j + Len(second) - 1) = second
        /\ Contains(SubSeq(out, i + Len(first), j - 1), BlankLine)

\* C10: for a template without the marker, the output of _combine_prompt holds
\* the trimmed template, then (after at least one blank line) the captured
\* text unchanged, and ends with the fixed directive.
C10_TemplateThenText ==
    (done /\ args.op = "combine" /\ ~Contains(args.template, Marker)) =>
        /\ InOrderWithBlankLine(ret, strip(args.template), args.text)
        /\ endswith(ret, strict_suffix)

\* The output without the directive appended to it.
body_of(out) == SubSeq(out, 1, Len(out) - Len(strict_suffix))

\* Places of the template at which the marker stands.
MarkerAt(template) ==
    {i \in 1..Len(template) :
        i + Len(Marker) - 1 <= Len(template)
        /\ SubSeq(template, i, i + Len(Marker) - 1) = Marker}

\* The body holds the text at the place of a marker of the template (or
\* before it, where escaped braces ahead of the marker shortened the output).
InsertedAtMarker(body, template, text) ==
    \E i \in MarkerAt(template) : \E j \in 1..i :
        /\ j + Len(text) - 1 <= Len(body)
        /\ SubSeq(body, j, j + Len(text) - 1) = text

\* C11: for a template that contains the marker, the output of _combine_prompt
\* ends with the directive, and before it either holds the captured text
\* unchanged at the marker's place or, when the substitution failed, is the
\* template, a blank line and the captured text unchanged.
C11_MarkerRoundTrip ==
    (done /\ args.op = "combine" /\ Contains(args.template, Marker)) =>
        /\ endswith(ret, strict_suffix)
        /\ \/ InsertedAtMarker(body_of(ret), args.template, args.text)
           \/ /\ ~format(args.template, args.text).ok
              /\ body_of(ret) = args.template \o BlankLine \o args.text

\* The two built-in templates, by name and in order.
IsBuiltIns(prompts) ==
    /\ Len(prompts) = 2
    /\ prompts[1].name = <<"P", "r", "o", "f", "e", "s", "s", "i", "o", "n", "a", "l", " ",
                           "T", "o", "n", "e">>
    /\ prompts[2].name = <<"F", "i", "x", " ", "G", "r", "a", "m", "m", "a", "r">>
    /\ prompts = default_prompts

\* C12: load_prompts on a template file that is absent, unparsable or no list
\* returns the two built-in templates and leaves the file holding them, so
\* that a second load_prompts reads the same two from the file.
C12_LoadPromptsRepairs ==
    (args.op = "load_prompts" /\ args.file.kind \in {"absent", "corrupt", "notlist"}) =>
        /\ IsBuiltIns(ret)
        /\ promptsFile.kind = "list"
        /\ promptsFile.items = ret
        /\ load_prompts(promptsFile).prompts = ret

\* C13: load_config on a settings file that is absent or unparsable returns
\* the record with the placeholder credential and leaves config.json holding
\* that record, so that a second load_config returns the same.
C13_LoadConfigRepairs ==
    (args.op = "load_config" /\ args.file.kind \in {"absent", "corrupt"}) =>
        /\ ret.has_key /\ ret.api_key = Placeholder
        /\ cfgFile.kind = "json"
        /\ cfgFile = save_config(ret)
        /\ load_config(cfgFile) = [cfg |-> ret, file |-> cfgFile]

\* C13 witness: an unparsable config.json was loaded and now holds the
\* placeholder record.
C13_Witness ==
    /\ args.op = "load_config"
    /\ args.file.kind = "corrupt"
    /\ ret = DefaultConfig
    /\ cfgFile = DefaultConfig

\* The entries of a template list whose body lacks the marker.
Markerless(prompts) == {i \in 1..Len(prompts) : ~Contains(prompts[i].prompt, Marker)}

\* The entry the editor wrote last, in the window's list and in prompts.json.
EditorWrote ==
    /\ args.op \in {"add", "edit"}
    /\ args.index + 1 \in 1..Len(mgmt.prompts)

\* C14: the template the prompt editor has just stored (added or edited)
\* contains the marker, in the window's list and in prompts.json; and no
\* operation of the open settings window raises the number of stored
\* templates that lack it.
C14_EditorKeepsMarker ==
    /\ [](EditorWrote =>
            /\ Contains(mgmt.prompts[args.index + 1].prompt, Marker)
            /\ promptsFile.kind = "list"
            /\ args.index + 1 \in 1..Len(promptsFile.items)
            /\ Contains(promptsFile.items[args.index + 1].prompt, Marker))
    /\ [][mgmt.open =>
            Cardinality(Markerless(mgmt'.prompts)) <= Cardinality(Markerless(mgmt.prompts))]_vars

\* C14 witness: a stored template without the marker was edited, the body
\* typed lacked the marker too, and the entry stored has it appended.
C14_Witness ==
    /\ args.op = "edit"
    /\ args.index = 0
    /\ args.prompt = <<"a", " ">>
    /\ Len(mgmt.prompts) = 2
    /\ mgmt.prompts[1].prompt = <<"a">> \o BlankLine \o Marker
    /\ Markerless(mgmt.prompts) = {2}

\* prompts.json holds exactly the list `prompts`.
StoreHolds(file, prompts) == file.kind = "list" /\ file.items = prompts

\* The list `new` is `old` without its entry number i (from 1).
Removed(old, new, i) ==
    /\ Len(new) = Len(old) - 1
    /\ \A j \in 1..Len(new) : new[j] = IF j < i THEN old[j] ELSE old[j + 1]

\* C15: an add appends one entry and keeps the others in place, an edit
\* replaces the indexed entry only, a delete with a valid index removes the
\* indexed entry only, and after each of them prompts.json holds the window's
\* list; a delete with an index out of range changes neither.
C15_StoreFollowsList ==
    [][/\ args'.op = "add" =>
            /\ Len(mgmt'.prompts) = Len(mgmt.prompts) + 1
            /\ SubSeq(mgmt'.prompts, 1, Len(mgmt.prompts)) = mgmt.prompts
            /\ StoreHolds(promptsFile', mgmt'.prompts)
       /\ args'.op = "edit" =>
            /\ Len(mgmt'.prompts) = Len(mgmt.prompts)
            /\ \A j \in 1..Len(mgmt.prompts) :
                   j # args'.index + 1 => mgmt'.prompts[j] = mgmt.prompts[j]
            /\ StoreHolds(promptsFile', mgmt'.prompts)
       /\ args'.op = "delete" =>
            IF args'.index \in 0..(Len(mgmt.prompts) - 1)
            THEN /\ Removed(mgmt.prompts, mgmt'.prompts, args'.index + 1)
                 /\ StoreHolds(promptsFile', mgmt'.prompts)
            ELSE /\ mgmt'.prompts = mgmt.prompts
                 /\ promptsFile' = promptsFile]_vars

\* C15 witness: the first of two templates was deleted and prompts.json holds
\* the one that is left.
C15_Witness ==
    /\ args.op = "delete"
    /\ args.index = 0
    /\ Len(mgmt.prompts) = 1
    /\ mgmt.prompts[1].name = <<"M">>
    /\ StoreHolds(promptsFile, mgmt.prompts)

\* The name highlighted in the displayed list of window record wr, <<>> when
\* the index points at no button.
Highlighted(wr) ==
    LET names == sorted_prompt_names(wr.prompts) IN
    IF wr.selected_prompt_index + 1 \in 1..Len(names)
    THEN names[wr.selected_prompt_index + 1]
    ELSE <<>>

\* C16: a submit in prompt-select mode starts its worker with the template
\* stored under the name highlighted in the sorted display list.
C16_SubmitsHighlighted ==
    [][\A w \in Windows :
          (/\ Len(workers') = Len(workers) + 1
           /\ workers'[Len(workers')].win = w
           /\ win[w].prompt_select_mode) =>
              /\ Highlighted(win[w]) # <<>>
              /\ workers'[Len(workers')].instruction =
                     dict_get(win[w].prompts, Highlighted(win[w]))]_vars

\* C17: no PromptWindow has started more than one worker thread.
C17_OneWorkerPerWindow == \A w \in Windows : Cardinality(WorkersOf(w)) <= 1

\* What a capture cycle consists of: the queued callbacks, the windows, the
\* single-cycle guard, the focus, the workers and the pastes.
cycleVars == <<uiQueue, timers, current_prompt_window, win, nWin, focused, workers,
               keystrokes>>

\* C18: a hotkey trigger either queues _open_prompt_window with a non-empty
\* captured text or starts nothing at all; so no queued call and no
\* PromptWindow (and with it no request and no paste) carries an empty capture.
C18_EmptyCaptureStartsNothing ==
    /\ [](/\ \A i \in 1..Len(uiQueue) :
               uiQueue[i].kind = "open" => uiQueue[i].captured # <<>>
          /\ \A w \in Windows : win[w].state # "none" => win[w].captured_text # <<>>)
    /\ [][hotkeys' # hotkeys =>
            \/ /\ Len(uiQueue') = Len(uiQueue) + 1
               /\ uiQueue'[Len(uiQueue')].kind = "open"
               /\ uiQueue'[Len(uiQueue')].captured # <<>>
            \/ UNCHANGED cycleVars]_vars

\* C18 witness: the chord was pressed, the selection reached the clipboard but
\* could not be read back, and nothing was queued or opened.
C18_Witness ==
    /\ hotkeys = 1
    /\ clipboard = <<"h", "i">>
    /\ uiQueue = <<>>
    /\ nWin = 0
    /\ current_prompt_window = 0
    /\ focused = 0
    /\ workers = <<>>

====
